---------------------------- MODULE Spec2Model ----------------------------
(***************************************************************************)
(* A model of the Logstash MCP server (src/logstash_mcp_server.py): the    *)
(* stdin/stdout JSON-RPC loop of main(), the session gate of               *)
(* handle_request(), the dispatcher handle_tool_call() and the diagnostic  *)
(* routines check_connectivity() and health_check().                       *)
(*                                                                         *)
(* JSON documents are records whose DOMAIN is the set of keys present, so  *)
(* that dict.get(key, default) and "key in dict" are modelled by what they *)
(* do.  Python's None is the string "null".  Ratios are fixed-point        *)
(* numbers in units of 1/10000 (0.1 is 1000, 0.05 is 500, 0.01 is 100).    *)
(***************************************************************************)
EXTENDS Integers, Sequences, FiniteSets, TLC

(* ----------------------------- bounds --------------------------------- *)

\* The longest "pipelines" mapping the upstream returns.
MaxPipelines == 2

(* ------------------------- program constants -------------------------- *)

\* Error code of every failure caught in handle_request.
HANDLER_ERROR_CODE == -32602

\* Error code of a line json.loads cannot parse.
PARSE_ERROR_CODE == -32700

\* "if heap_percent > 80".
HEAP_THRESHOLD == 80

\* "if current_backpressure > 0.1", "> 0.05", "> 0.01", in units of 1/10000.
CRITICAL_THRESHOLD == 1000

WARNING_THRESHOLD == 500

CAUTION_THRESHOLD == 100

\* The web UI's own copies of the three ratios, 0.1, 0.05 and 0.01.
WEB_CRITICAL_THRESHOLD == 1000

WEB_WARNING_THRESHOLD == 500

WEB_CAUTION_THRESHOLD == 100

\* arguments.get("threads", 3)
DEFAULT_THREADS == 3

\* LOGSTASH_BASE_URL with the default host and port.
LOGSTASH_BASE_URL == "http://localhost:9600"

None == "null"

(* ------------------------- Python dict helpers ------------------------ *)

\* d.get(k, default)
Get(d, k, default) == IF k \in DOMAIN d THEN d[k] ELSE default

(* ------------------------------ state --------------------------------- *)

VARIABLES
    pc,              \* where main()'s loop stands: "read", "handle", "await", "emit", "done", "crashed"
    is_initialized,  \* the module-level session flag
    line,            \* the line read in this iteration, as json.loads sees it
    response,        \* the response built in this iteration
    upstream,        \* what the Logstash API answers during this iteration
    calls,           \* the upstream requests made during this iteration, in order
    was_initialized, \* the flag as handle_request found it in this iteration
    first_init       \* the result built for the first initialize command

vars == <<pc, is_initialized, line, response, upstream, calls, was_initialized, first_init>>


(* --------------------- values that are not mappings ------------------- *)

\* A JSON value that is not an object (null, a list, a number): it has no .get().
NotAMapping == [py_type |-> "NoneType"]

IsMapping(v) == "py_type" \notin DOMAIN v

\* The AttributeError text of v.get(...) on such a value.
AttributeErrorText == "'NoneType' object has no attribute 'get'"

\* {}
EmptyDict == [k \in {} |-> None]

\* All dicts over a subset of Keys, key k taking its value in Vals[k].
Dicts(Keys, Vals) ==
    UNION { { d \in [D -> UNION { Vals[k] : k \in D }] : \A k \in D : d[k] \in Vals[k] }
            : D \in SUBSET Keys }

\* Python truthiness of an argument value ("if human", "if not pipeline_id").
Truthy(v) == v \notin {"false", "", "0", None}

\* str(v) as an f-string formats it.
PyStr(v) == CASE v = None    -> "None"
              [] v = "true"  -> "True"
              [] v = "false" -> "False"
              [] OTHER       -> v

(* ------------------------- the upstream (Logstash) -------------------- *)

\* How one HTTP exchange ends: status 200, another status, or a client error.
Outcomes == {"ok", "http", "down"}

\* The same, and an exchange in which the upstream never answers.
TimedOutcomes == Outcomes \cup {"hang"}

\* The same for the three make_request calls of health_check, whose two failures
\* differ in the error text only.
HealthOutcomes == {"ok", "down"}

\* heap_used_percent values around the threshold.
HeapVals == {0, 80, 81, 100}

\* The "jvm" block of /_node/stats: without "mem", with an empty "mem", with a value.
JvmDocs == {[gc |-> "g"], [mem |-> EmptyDict]}
           \cup { [mem |-> [heap_used_percent |-> h]] : h \in HeapVals }

\* The "events" block of one pipeline: both counts, or "filtered" alone.
EventsDocs == { [filtered |-> f, out |-> o] : f \in {0, 5}, o \in {0, 7} }
              \cup {[filtered |-> 5]}

\* One pipeline's statistics: with or without "events".
PipelineDocs == {[queue |-> "memory"]} \cup { [events |-> e] : e \in EventsDocs }

\* The "pipelines" mapping in the order the upstream sends it; the i-th key is
\* PipelineId(i).
PipelinesDocs == UNION { [1..n -> PipelineDocs] : n \in 0..MaxPipelines }

PipelineId(i) == "p" \o ToString(i)

\* Backpressure ratios in units of 1/10000, on and around each threshold.
Ratios == {0, 100, 101, 500, 501, 1000, 1001, 1500}

\* The "queue_backpressure" block of the flow statistics.
BackpressureDocs ==
    {EmptyDict, [last_1_minute |-> 300]}
    \cup { [current |-> r] : r \in Ratios }
    \cup { [current |-> r, last_1_minute |-> 300, lifetime |-> 200] : r \in {0, 1001} }

\* The "flow" block.
FlowDocs ==
    {EmptyDict, [input_throughput |-> [current |-> 40]]}
    \cup { [queue_backpressure |-> b] : b \in BackpressureDocs }
    \cup { [queue_backpressure |-> [current |-> 501], worker_concurrency |-> [current |-> 2],
            input_throughput |-> [current |-> 40], output_throughput |-> [current |-> 39]] }

\* A statistics document that carries a flow block or none.
FlowStatsDocs == {[timestamp |-> "t1"]} \cup { [timestamp |-> "t1", flow |-> f] : f \in FlowDocs }

\* GET /_node
NodeInfoDoc == [version |-> "8.8.0", host |-> "ls1", timestamp |-> "t0"]

\* What the upstream answers in an iteration in which nothing is asked.
IdleWorld == [probe |-> "ok", node |-> "ok", stats |-> "ok", pipes |-> "ok", fetch |-> "ok",
              jvm |-> [gc |-> "g"], pipelines |-> <<>>, flow |-> [timestamp |-> "t1"]]

\* The upstream answers that the composite health check can meet.
HealthWorlds ==
    { [IdleWorld EXCEPT !.probe = a, !.node = b, !.stats = c, !.pipes = d,
                        !.jvm = j, !.pipelines = p]
      : a \in Outcomes, b \in HealthOutcomes, c \in HealthOutcomes, d \in HealthOutcomes,
        j \in JvmDocs, p \in PipelinesDocs }

\* The upstream answers that the tools reading the flow block can meet.
FlowWorlds == { [IdleWorld EXCEPT !.fetch = a, !.flow = f] : a \in Outcomes, f \in FlowStatsDocs }

\* The upstream answers that the connectivity probe can meet.
ProbeWorlds == { [IdleWorld EXCEPT !.probe = a] : a \in TimedOutcomes }

\* The upstream answers that a tool passing one document through can meet.
FetchWorlds == { [IdleWorld EXCEPT !.fetch = a] : a \in TimedOutcomes }

\* The composite health check with one of its four exchanges never answered.
HangingHealthWorlds ==
    { [IdleWorld EXCEPT ![k] = "hang"] : k \in {"probe", "node", "stats", "pipes"} }

\* Every way the four exchanges of the composite health check can end.
TimedHealthWorlds ==
    { [IdleWorld EXCEPT !.probe = a, !.node = b, !.stats = c, !.pipes = d]
      : a \in TimedOutcomes, b \in HealthOutcomes \cup {"hang"},
        c \in HealthOutcomes \cup {"hang"}, d \in HealthOutcomes \cup {"hang"} }

(* ---------------------------- make_request ---------------------------- *)

\* Either the document (status 200) or the exception raised. When the upstream never
\* answers, the total timeout of the ClientSession ends the exchange with
\* asyncio.TimeoutError: not a ClientError, so it leaves make_request as it is, and
\* its str() is empty.
make_request(endpoint, outcome, doc) ==
    CASE outcome = "ok"   -> [raised |-> FALSE, value |-> doc]
      [] outcome = "http" -> [raised |-> TRUE, error |-> "HTTP 500: Internal Server Error"]
      [] outcome = "hang" -> [raised |-> TRUE, error |-> ""]
      [] OTHER            -> [raised |-> TRUE,
                              error |-> "Failed to connect to Logstash at " \o LOGSTASH_BASE_URL
                                        \o endpoint \o ": Cannot connect to host"]

(* -------------------------- check_connectivity ------------------------ *)

\* The request the probe makes.
ProbeCall == "probe /_node"

\* An "unreachable" report that leaves the error text out.
UnreachableWithoutError(error) ==
    [status |-> "unreachable", url |-> LOGSTASH_BASE_URL,
     suggestion |-> "Verify Logstash URL and network connectivity"]

\* The dict returned by the probe's "except Exception as e", error being str(e).
Unreachable(error) ==
    [status |-> "unreachable", url |-> LOGSTASH_BASE_URL,
     error |-> error,
     suggestion |-> "Verify Logstash URL and network connectivity"]

\* A probe that takes any answered request for a connection.
check_connectivity_any_status(outcome) ==
    IF outcome \in {"ok", "http"}
    THEN [status |-> "connected", url |-> LOGSTASH_BASE_URL,
          version |-> "unknown", host |-> "unknown",
          response_time_ms |-> "unknown", timestamp |-> "unknown"]
    ELSE [status |-> "unreachable", url |-> LOGSTASH_BASE_URL,
          error |-> "Cannot connect to host",
          suggestion |-> "Verify Logstash URL and network connectivity"]

check_connectivity(outcome) ==
    CASE outcome = "ok" ->
             [status |-> "connected", url |-> LOGSTASH_BASE_URL,
              version |-> Get(NodeInfoDoc, "version", "unknown"),
              host |-> Get(NodeInfoDoc, "host", "unknown"),
              response_time_ms |-> "unknown",
              timestamp |-> Get(NodeInfoDoc, "timestamp", "unknown")]
      [] outcome = "http" ->
             [status |-> "error", url |-> LOGSTASH_BASE_URL,
              error |-> "HTTP 500", message |-> "Internal Server Error"]
      [] outcome = "hang" -> Unreachable("")
      [] OTHER -> Unreachable("Cannot connect to host")

(* ----------------------------- health_check --------------------------- *)

\* An assessment that starts one tier up.
InitialHealthStatusWarning ==
    [overall_status |-> "warning", timestamp |-> None, logstash_version |-> None,
     issues |-> <<>>, recommendations |-> <<>>]

\* The assessment health_check starts from.
InitialHealthStatus ==
    [overall_status |-> "healthy", timestamp |-> None, logstash_version |-> None,
     issues |-> <<>>, recommendations |-> <<>>]

\* "Connectivity issue: ...", appended when the probe did not connect.
ConnectivityIssue(connectivity) == "Connectivity issue: " \o connectivity.error

\* A failed probe that is reported as a warning.
ConnectivityFailureWarning(hs, connectivity) ==
    [hs EXCEPT !.overall_status = "warning",
               !.issues = Append(@, ConnectivityIssue(connectivity)),
               !.recommendations =
                   Append(@, Get(connectivity, "suggestion", "Check Logstash connectivity"))]

\* The assessment returned when the probe did not connect.
ConnectivityFailure(hs, connectivity) ==
    [hs EXCEPT !.overall_status = "unhealthy",
               !.issues = Append(@, ConnectivityIssue(connectivity)),
               !.recommendations =
                   Append(@, Get(connectivity, "suggestion", "Check Logstash connectivity"))]

\* The issue text of the heap check.
HeapIssue(heap_percent) == "High JVM heap usage: " \o ToString(heap_percent) \o "%"

\* The heap test with an inclusive bound.
HeapTooHighInclusive(heap_percent) == heap_percent >= HEAP_THRESHOLD

\* "if heap_percent > 80"
HeapTooHigh(heap_percent) == heap_percent > HEAP_THRESHOLD

\* The JVM heap usage check on the "jvm" block of the node statistics.
HeapCheck(hs, jvm_stats) ==
    IF "mem" \in DOMAIN jvm_stats
    THEN LET heap_percent == Get(jvm_stats.mem, "heap_used_percent", 0) IN
         IF HeapTooHigh(heap_percent)
         THEN [hs EXCEPT !.issues = Append(@, HeapIssue(heap_percent)),
                         !.recommendations = Append(@,
                             "Consider increasing JVM heap size or optimizing memory usage"),
                         !.overall_status = "warning"]
         ELSE hs
    ELSE hs

\* The issue text of the pipeline check.
PipelineIssue(pipeline_id) == "Pipeline " \o pipeline_id \o " has filtered events but no output"

\* A recommendation that does not say which pipeline it is about.
PipelineAdviceUnnamed(pipeline_id) == "Check pipeline configuration for output issues"

PipelineAdvice(pipeline_id) ==
    "Check pipeline " \o pipeline_id \o " configuration for output issues"

\* The starvation test without its look at the out count.
StarvingIgnoringOut(filtered, out) == filtered > 0

\* "if filtered > 0 and out == 0"
Starving(filtered, out) == filtered > 0 /\ out = 0

\* A loop body that sets the status back to "healthy" for a pipeline that delivers.
PipelineCheckResetting(hs, pipeline_id, stats) ==
    IF "events" \in DOMAIN stats
    THEN LET events   == stats.events
             filtered == Get(events, "filtered", 0)
             out      == Get(events, "out", 0)
         IN  IF Starving(filtered, out)
             THEN [hs EXCEPT !.issues = Append(@, PipelineIssue(pipeline_id)),
                             !.recommendations = Append(@, PipelineAdvice(pipeline_id)),
                             !.overall_status = "warning"]
             ELSE [hs EXCEPT !.overall_status = "healthy"]
    ELSE hs

\* The body of the loop over pipelines.items(), for one pipeline.
PipelineCheck(hs, pipeline_id, stats) ==
    IF "events" \in DOMAIN stats
    THEN LET events   == stats.events
             filtered == Get(events, "filtered", 0)
             out      == Get(events, "out", 0)
         IN  IF Starving(filtered, out)
             THEN [hs EXCEPT !.issues = Append(@, PipelineIssue(pipeline_id)),
                             !.recommendations = Append(@, PipelineAdvice(pipeline_id)),
                             !.overall_status = "warning"]
             ELSE hs
    ELSE hs

\* The loop over pipelines.items(), from the i-th pipeline on.
RECURSIVE PipelinesLoop(_, _, _)
PipelinesLoop(hs, pipelines, i) ==
    IF i > Len(pipelines) THEN hs
    ELSE PipelinesLoop(PipelineCheck(hs, PipelineId(i), pipelines[i]), pipelines, i + 1)

\* A failed fetch that leaves the assessment it interrupted untouched.
HealthCheckFailedQuietly(error) == InitialHealthStatus

\* The result of the outer "except Exception".
HealthCheckFailed(error) == [overall_status |-> "unhealthy", error |-> error, timestamp |-> None]

\* A failed pipelines fetch that fails the whole check.
PipelinesUnavailableFatal(hs, error) ==
    [overall_status |-> "unhealthy", error |-> error, timestamp |-> None]

\* The inner "except: pass": the assessment stays as the earlier checks left it.
PipelinesUnavailable(hs, error) == hs

\* The endpoints health_check asks make_request for.
NodeInfoEndpoint == "/_node"

NodeStatsEndpoint == "/_node/stats?human=true"

PipelinesStatsEndpoint == "/_node/stats/pipelines?human=true"

\* health_check: the assessment returned and the upstream requests made, in order.
health_check(w) ==
    LET connectivity == check_connectivity(w.probe)
        node_info    == make_request(NodeInfoEndpoint, w.node, NodeInfoDoc)
        node_stats   == make_request(NodeStatsEndpoint, w.stats, [jvm |-> w.jvm])
        pipeline_stats == make_request(PipelinesStatsEndpoint, w.pipes,
                                       [pipelines |-> w.pipelines])
    IN  IF connectivity.status # "connected"
        THEN [result |-> IF "error" \in DOMAIN connectivity
                         THEN ConnectivityFailure(InitialHealthStatus, connectivity)
                         ELSE HealthCheckFailed("'error'"),
              calls  |-> <<ProbeCall>>]
        ELSE IF node_info.raised
        THEN [result |-> HealthCheckFailed(node_info.error),
              calls  |-> <<ProbeCall, NodeInfoEndpoint>>]
        ELSE IF node_stats.raised
        THEN [result |-> HealthCheckFailed(node_stats.error),
              calls  |-> <<ProbeCall, NodeInfoEndpoint, NodeStatsEndpoint>>]
        ELSE
        LET hs1 == [InitialHealthStatus EXCEPT
                       !.logstash_version = Get(node_info.value, "version", "unknown"),
                       !.timestamp = Get(node_info.value, "timestamp", None)]
            hs2 == HeapCheck(hs1, Get(node_stats.value, "jvm", EmptyDict))
            hs3 == IF pipeline_stats.raised
                   THEN PipelinesUnavailable(hs2, pipeline_stats.error)
                   ELSE PipelinesLoop(hs2, Get(pipeline_stats.value, "pipelines", <<>>), 1)
        IN  [result |-> hs3,
             calls  |-> <<ProbeCall, NodeInfoEndpoint, NodeStatsEndpoint,
                          PipelinesStatsEndpoint>>]

(* --------------------------- handle_tool_call ------------------------- *)

\* An error dict that does not echo the tool name.
ToolErrorWithoutName(error, name, arguments) ==
    [error |-> error, tool |-> None, arguments |-> arguments]

\* The dict returned by handle_tool_call's "except Exception".
ToolError(error, name, arguments) == [error |-> error, tool |-> name, arguments |-> arguments]

\* A suffix that also passes an undeclared "verbose" argument on to the upstream.
HumanSuffixWithVerbose(arguments, prefix) ==
    IF "verbose" \in DOMAIN arguments THEN prefix \o "verbose=true"
    ELSE IF Truthy(Get(arguments, "human", "true")) THEN prefix \o "human=true" ELSE ""

\* arguments.get("human", True), as the endpoint suffix it selects.
HumanSuffix(arguments, prefix) ==
    IF Truthy(Get(arguments, "human", "true")) THEN prefix \o "human=true" ELSE ""

\* One make_request whose document (or exception) is the tool's result.
Fetch(endpoint, w, doc, name, arguments) ==
    LET r == make_request(endpoint, w.fetch, doc) IN
    [result |-> IF r.raised THEN ToolError(r.error, name, arguments) ELSE r.value,
     calls  |-> <<endpoint>>]

\* The document the upstream holds under an endpoint, passed through unread.
DocOf(endpoint) == [document_of |-> endpoint]

\* The chain with inclusive bounds.
BackpressureStatusInclusive(current_backpressure) ==
    IF current_backpressure >= CRITICAL_THRESHOLD THEN "critical"
    ELSE IF current_backpressure >= WARNING_THRESHOLD THEN "warning"
    ELSE IF current_backpressure >= CAUTION_THRESHOLD THEN "caution"
    ELSE "healthy"

\* The if/elif chain over current_backpressure.
BackpressureStatus(current_backpressure) ==
    IF current_backpressure > CRITICAL_THRESHOLD THEN "critical"
    ELSE IF current_backpressure > WARNING_THRESHOLD THEN "warning"
    ELSE IF current_backpressure > CAUTION_THRESHOLD THEN "caution"
    ELSE "healthy"

BackpressureRecommendation(current_backpressure) ==
    IF current_backpressure > CRITICAL_THRESHOLD
    THEN "High backpressure detected! Consider scaling workers or optimizing filters"
    ELSE IF current_backpressure > WARNING_THRESHOLD
    THEN "Moderate backpressure detected. Monitor closely and consider optimization"
    ELSE IF current_backpressure > CAUTION_THRESHOLD
    THEN "Slight backpressure detected. Normal under heavy load"
    ELSE "Queue backpressure is at normal levels"

\* f"{current_backpressure * 100:.4f}%" of a ratio given in units of 1/10000.
PercentString(r) ==
    ToString(r \div 100) \o "." \o (IF r % 100 < 10 THEN "0" ELSE "") \o ToString(r % 100)
    \o "00%"

\* The check_backpressure branch, after the flow statistics were fetched.
BackpressureAnalysis(flow_stats) ==
    LET flow_data         == Get(flow_stats, "flow", EmptyDict)
        backpressure_data == Get(flow_data, "queue_backpressure", EmptyDict)
        current_backpressure == Get(backpressure_data, "current", 0)
    IN  IF DOMAIN backpressure_data # {}
        THEN [timestamp |-> Get(flow_stats, "timestamp", None),
              status |-> BackpressureStatus(current_backpressure),
              recommendation |-> BackpressureRecommendation(current_backpressure),
              queue_backpressure |-> backpressure_data,
              current_backpressure_percent |-> PercentString(current_backpressure),
              analysis |-> [trend_1min  |-> Get(backpressure_data, "last_1_minute", 0),
                            trend_5min  |-> Get(backpressure_data, "last_5_minutes", 0),
                            trend_15min |-> Get(backpressure_data, "last_15_minutes", 0),
                            baseline    |-> Get(backpressure_data, "lifetime", 0)]]
        ELSE [error |-> "Backpressure data not available"]

\* ---- The web UI's client (src/web_ui.py) ----

\* LogstashClient.make_request: a dict with "success", never an exception.
LogstashClient_make_request(endpoint, outcome, doc) ==
    CASE outcome = "ok"   -> [success |-> TRUE, data |-> doc]
      [] outcome = "http" -> [success |-> FALSE, error |-> "HTTP 500: Internal Server Error"]
      [] outcome = "hang" -> [success |-> FALSE, error |-> "Connection failed: "]
      [] OTHER            -> [success |-> FALSE,
                              error |-> "Connection failed: Cannot connect to host"]

\* The web UI's chain with every bound inclusive.
WebBackpressureLevelInclusive(current_backpressure) ==
    IF current_backpressure >= WEB_CRITICAL_THRESHOLD
    THEN [status |-> "critical",
          recommendation |-> "High backpressure detected! Consider scaling workers or optimizing filters"]
    ELSE IF current_backpressure >= WEB_WARNING_THRESHOLD
    THEN [status |-> "warning",
          recommendation |-> "Moderate backpressure detected. Monitor closely and consider optimization"]
    ELSE IF current_backpressure >= WEB_CAUTION_THRESHOLD
    THEN [status |-> "caution",
          recommendation |-> "Slight backpressure detected. Normal under heavy load"]
    ELSE [status |-> "healthy",
          recommendation |-> "Queue backpressure is at normal levels"]

\* The web UI's if/elif chain, which assigns status and recommendation together.
WebBackpressureLevel(current_backpressure) ==
    IF current_backpressure > WEB_CRITICAL_THRESHOLD
    THEN [status |-> "critical",
          recommendation |-> "High backpressure detected! Consider scaling workers or optimizing filters"]
    ELSE IF current_backpressure > WEB_WARNING_THRESHOLD
    THEN [status |-> "warning",
          recommendation |-> "Moderate backpressure detected. Monitor closely and consider optimization"]
    ELSE IF current_backpressure > WEB_CAUTION_THRESHOLD
    THEN [status |-> "caution",
          recommendation |-> "Slight backpressure detected. Normal under heavy load"]
    ELSE [status |-> "healthy",
          recommendation |-> "Queue backpressure is at normal levels"]

\* LogstashClient.check_backpressure against the upstream w.
LogstashClient_check_backpressure(human, w) ==
    LET endpoint == "/_node/stats/flow" \o (IF human THEN "?human=true" ELSE "")
        result   == LogstashClient_make_request(endpoint, w.fetch, w.flow)
    IN  IF result.success
        THEN LET flow_stats        == result.data
                 flow_data         == Get(flow_stats, "flow", EmptyDict)
                 backpressure_data == Get(flow_data, "queue_backpressure", EmptyDict)
                 current_backpressure == Get(backpressure_data, "current", 0)
                 level             == WebBackpressureLevel(current_backpressure)
             IN  IF DOMAIN backpressure_data # {}
                 THEN [success |-> TRUE,
                       data |-> [timestamp |-> Get(flow_stats, "timestamp", None),
                                 status |-> level.status,
                                 recommendation |-> level.recommendation,
                                 queue_backpressure |-> backpressure_data,
                                 current_backpressure_percent |->
                                     PercentString(current_backpressure),
                                 analysis |->
                                     [trend_1min  |-> Get(backpressure_data, "last_1_minute", 0),
                                      trend_5min  |-> Get(backpressure_data, "last_5_minutes", 0),
                                      trend_15min |-> Get(backpressure_data, "last_15_minutes", 0),
                                      baseline    |-> Get(backpressure_data, "lifetime", 0)]]]
                 ELSE [success |-> FALSE, error |-> "Backpressure data not available"]
        ELSE result

\* A summary whose throughput fields are exchanged.
FlowSummaryThroughputsSwapped(full_stats) ==
    LET flow_metrics == Get(full_stats, "flow", EmptyDict)
        Current(key) == Get(Get(flow_metrics, key, EmptyDict), "current", 0)
    IN  IF DOMAIN flow_metrics # {}
        THEN [timestamp |-> Get(full_stats, "timestamp", None),
              flow_metrics |-> flow_metrics,
              summary |-> [current_worker_concurrency |-> Current("worker_concurrency"),
                           current_queue_backpressure |-> Current("queue_backpressure"),
                           input_throughput  |-> Current("output_throughput"),
                           output_throughput |-> Current("input_throughput")]]
        ELSE [error |-> "Flow metrics not available"]

\* The flow_metrics branch, after the node statistics were fetched.
FlowSummary(full_stats) ==
    LET flow_metrics == Get(full_stats, "flow", EmptyDict)
        Current(key) == Get(Get(flow_metrics, key, EmptyDict), "current", 0)
    IN  IF DOMAIN flow_metrics # {}
        THEN [timestamp |-> Get(full_stats, "timestamp", None),
              flow_metrics |-> flow_metrics,
              summary |-> [current_worker_concurrency |-> Current("worker_concurrency"),
                           current_queue_backpressure |-> Current("queue_backpressure"),
                           input_throughput  |-> Current("input_throughput"),
                           output_throughput |-> Current("output_throughput")]]
        ELSE [error |-> "Flow metrics not available"]

\* The names the if/elif chain of handle_tool_call tests, in its order.
DispatchedNames ==
    <<"logstash_check_connectivity", "logstash_node_info", "logstash_node_stats",
      "logstash_pipelines_stats", "logstash_pipeline_stats", "logstash_hot_threads",
      "logstash_plugins", "check_backpressure", "logstash_health_check",
      "logstash_jvm_stats", "logstash_health_report", "flow_metrics">>

\* The branches that evaluate arguments.get(...).
ReadsArguments ==
    {"logstash_node_stats", "logstash_pipelines_stats", "logstash_pipeline_stats",
     "logstash_hot_threads", "check_backpressure", "logstash_jvm_stats", "flow_metrics"}

\* A test that rejects an empty id and lets an absent one through.
PipelineIdEmptyOnly(arguments) == "id" \in DOMAIN arguments /\ ~Truthy(arguments.id)

\* "if not pipeline_id: raise ValueError"
PipelineIdMissing(arguments) == ~Truthy(Get(arguments, "id", None))

\* handle_tool_call: the dict returned and the upstream requests made, in order.
handle_tool_call(name, arguments, w) ==
    LET NoCall(error) == [result |-> ToolError(error, name, arguments), calls |-> <<>>]
        Through(endpoint) == Fetch(endpoint, w, DocOf(endpoint), name, arguments)
    IN
    IF name \in ReadsArguments /\ ~IsMapping(arguments) THEN NoCall(AttributeErrorText)
    ELSE
    CASE name = "logstash_check_connectivity" ->
             [result |-> check_connectivity(w.probe), calls |-> <<ProbeCall>>]
      [] name = "logstash_node_info" -> Through("/_node")
      [] name = "logstash_node_stats" ->
             Through("/_node/stats" \o HumanSuffix(arguments, "?"))
      [] name = "logstash_pipelines_stats" ->
             Through("/_node/stats/pipelines" \o HumanSuffix(arguments, "?"))
      [] name = "logstash_pipeline_stats" ->
             IF PipelineIdMissing(arguments) THEN NoCall("Pipeline ID is required")
             ELSE Through("/_node/stats/pipelines/" \o PyStr(Get(arguments, "id", None))
                          \o HumanSuffix(arguments, "?"))
      [] name = "logstash_hot_threads" ->
             Through("/_node/hot_threads?threads="
                     \o PyStr(Get(arguments, "threads", ToString(DEFAULT_THREADS)))
                     \o HumanSuffix(arguments, "&"))
      [] name = "logstash_plugins" -> Through("/_node/plugins")
      [] name = "check_backpressure" ->
             LET f == Fetch("/_node/stats/flow" \o HumanSuffix(arguments, "?"), w, w.flow,
                            name, arguments)
             IN  IF w.fetch = "ok" THEN [f EXCEPT !.result = BackpressureAnalysis(@)] ELSE f
      [] name = "logstash_health_check" -> health_check(w)
      [] name = "logstash_jvm_stats" ->
             Through("/_node/stats/jvm" \o HumanSuffix(arguments, "?"))
      [] name = "logstash_health_report" -> Through("/_health_report")
      [] name = "flow_metrics" ->
             LET f == Fetch("/_node/stats" \o HumanSuffix(arguments, "?"), w, w.flow,
                            name, arguments)
             IN  IF w.fetch = "ok" THEN [f EXCEPT !.result = FlowSummary(@)] ELSE f
      [] OTHER -> NoCall("Unknown tool: " \o PyStr(name))

(* ------------------------------ get_tools ----------------------------- *)

\* An entry that lists flow_metrics under the name of another tool.
ToolRenamed(name, properties, required) ==
    [name |-> IF name = "flow_metrics" THEN "check_backpressure" ELSE name,
     inputSchema |-> [type |-> "object", properties |-> properties, required |-> required]]

\* One entry of the list get_tools returns (descriptions left out).
Tool(name, properties, required) ==
    [name |-> name,
     inputSchema |-> [type |-> "object", properties |-> properties, required |-> required]]

HumanProperty == [type |-> "boolean", default |-> "true"]

\* A registry that declares another default for threads than the dispatcher applies.
ThreadsPropertyDefaultFive == [type |-> "integer", default |-> "5"]

ThreadsProperty == [type |-> "integer", default |-> "3"]

IdProperty == [type |-> "string"]

get_tools ==
    <<Tool("logstash_check_connectivity", EmptyDict, <<>>),
      Tool("logstash_node_info", EmptyDict, <<>>),
      Tool("logstash_node_stats", [human |-> HumanProperty], <<>>),
      Tool("logstash_pipelines_stats", [human |-> HumanProperty], <<>>),
      Tool("logstash_pipeline_stats", [id |-> IdProperty, human |-> HumanProperty], <<"id">>),
      Tool("logstash_hot_threads", [threads |-> ThreadsProperty, human |-> HumanProperty], <<>>),
      Tool("logstash_plugins", EmptyDict, <<>>),
      Tool("check_backpressure", [human |-> HumanProperty], <<>>),
      Tool("logstash_health_check", EmptyDict, <<>>),
      Tool("logstash_jvm_stats", [human |-> HumanProperty], <<>>),
      Tool("logstash_health_report", EmptyDict, <<>>),
      Tool("flow_metrics", [human |-> HumanProperty], <<>>)>>

\* The names the registry lists.
ToolNames == { get_tools[i].name : i \in 1..Len(get_tools) }

\* The registry entry of a listed name.
Descriptor(name) == get_tools[CHOOSE i \in 1..Len(get_tools) : get_tools[i].name = name]

(* ---------------------------- handle_request -------------------------- *)

\* json.dumps(value): the text that holds the serialized value.
json_dumps(value) == [json_text_of |-> value]

\* A success envelope that does not carry the id of the request.
ResultEnvelopeNullId(request_id, result) == [jsonrpc |-> "2.0", id |-> None, result |-> result]

\* The success envelope.
ResultEnvelope(request_id, result) == [jsonrpc |-> "2.0", id |-> request_id, result |-> result]

\* An error envelope carrying the parse error code.
ErrorEnvelopeParseCode(request_id, message) ==
    [jsonrpc |-> "2.0", id |-> request_id,
     error |-> [code |-> PARSE_ERROR_CODE, message |-> message]]

\* The envelope built by handle_request's "except Exception".
ErrorEnvelope(request_id, message) ==
    [jsonrpc |-> "2.0", id |-> request_id,
     error |-> [code |-> HANDLER_ERROR_CODE, message |-> message]]

\* The result of initialize.
InitializeResult ==
    [capabilities |-> EmptyDict, serverInfo |-> [name |-> "logstash-mcp", version |-> "1.0.0"]]

NotInitializedMessage == "Server not initialized"

\* An initialize that refuses a session.
InitializeRefused(request_id) ==
    [jsonrpc |-> "2.0", id |-> request_id,
     error |-> [code |-> HANDLER_ERROR_CODE, message |-> "Already initialized"]]

\* The response of the initialize branch.
InitializeResponse(request_id) == ResultEnvelope(request_id, InitializeResult)

\* A flag that initialize flips.
FlagToggled(method, flag) == IF method = "initialize" THEN ~flag ELSE flag

\* The value of is_initialized after a request with this method.
FlagAfter(method, flag) == IF method = "initialize" THEN TRUE ELSE flag

\* A gate that tools/call passes in either state.
GatedListOnly(method, flag) == method = "tools/list" /\ ~flag

\* "if not is_initialized: raise Exception(...)" of tools/list and tools/call.
Gated(method, flag) == method \in {"tools/list", "tools/call"} /\ ~flag

\* A content list that hands the result over as an object, not as text.
ToolContentAsObject(result) == <<[type |-> "json", json |-> result]>>

\* The content list wrapping a tool's result.
ToolContent(result) == <<[type |-> "text", text |-> json_dumps(result)]>>

\* handle_request on a parsed request object: the response, the new value of
\* is_initialized and the upstream requests made.
handle_request(request_data, flag, w) ==
    LET method     == Get(request_data, "method", None)
        request_id == Get(request_data, "id", None)
        params     == Get(request_data, "params", EmptyDict)
        Answer(resp, cs) ==
            [response |-> resp, is_initialized |-> FlagAfter(method, flag), calls |-> cs]
    IN  IF method = "initialize"
        THEN Answer(InitializeResponse(request_id), <<>>)
        ELSE IF Gated(method, flag)
        THEN Answer(ErrorEnvelope(request_id, NotInitializedMessage), <<>>)
        ELSE IF method = "tools/list"
        THEN Answer(ResultEnvelope(request_id, [tools |-> get_tools]), <<>>)
        ELSE IF method = "tools/call"
        THEN IF ~IsMapping(params)
             THEN Answer(ErrorEnvelope(request_id, AttributeErrorText), <<>>)
             ELSE LET tool_name == Get(params, "name", None)
                      arguments == Get(params, "arguments", EmptyDict)
                      outcome   == handle_tool_call(tool_name, arguments, w)
                  IN  Answer(ResultEnvelope(request_id, [content |-> ToolContent(outcome.result)]),
                             outcome.calls)
        ELSE Answer(ErrorEnvelope(request_id, "Unknown method: " \o PyStr(method)), <<>>)

(* ------------------------- the lines on stdin ------------------------- *)

\* Values a client may send for each argument: of the declared type and not.
ArgumentValues ==
    [k \in {"human", "threads", "id", "verbose"} |->
        CASE k = "human"   -> {"true", "false", "yes"}
          [] k = "threads" -> {"5", "many"}
          [] k = "id"      -> {"main", "", "7"}
          [] OTHER         -> {"true"}]

\* The arguments sent with a tool name: the fields its descriptor declares and one
\* field, "verbose", that no descriptor declares; or a value that is no mapping.
ArgumentsFor(name) ==
    LET declared == IF name \in ToolNames
                    THEN DOMAIN Descriptor(name).inputSchema.properties ELSE {}
    IN  Dicts(declared \cup {"verbose"}, ArgumentValues) \cup {NotAMapping}

\* A tool name in the registry, one that is not, or none.
RequestedNames == ToolNames \cup {"bogus_tool"}

\* The "params" of a tools/call request.
CallParams ==
    {NotAMapping, EmptyDict}
    \cup { [name |-> n] : n \in RequestedNames }
    \cup { [arguments |-> a] : a \in ArgumentsFor(None) }
    \cup UNION { { [name |-> n, arguments |-> a] : a \in ArgumentsFor(n) } : n \in RequestedNames }

\* The "params" sent with the other methods.
OtherParams == {NotAMapping, EmptyDict}

\* The methods a client may send; "ping" is not one handle_request knows.
Methods == {"initialize", "tools/list", "tools/call", "ping"}

\* The request ids a client may send.
RequestIds == {"7"}

\* The request objects with this method (or with none, for None).
RequestsWith(method) ==
    LET heads == { [k \in {} |-> None] } \cup { [id |-> i] : i \in RequestIds }
        named == IF method = None THEN heads
                 ELSE { [k \in DOMAIN h \cup {"method"} |->
                            IF k = "method" THEN method ELSE h[k]] : h \in heads }
        ps    == IF method = "tools/call" THEN CallParams ELSE OtherParams
    IN  named \cup { [k \in DOMAIN h \cup {"params"} |-> IF k = "params" THEN p ELSE h[k]]
                     : h \in named, p \in ps }

\* No line, a line json.loads rejects, a line holding a request object.
NoLine == [kind |-> "none"]

GarbageLine == [kind |-> "garbage"]

\* A line json.loads accepts whose value is no object: a list, a number, a string,
\* true, false or null.
ValueLine == [kind |-> "value", data |-> NotAMapping]

RequestLine(request) == [kind |-> "request", data |-> request]

NoResponse == [none |-> None]

\* The upstream answers that can matter to a request.
WorldsFor(request) ==
    LET params == Get(request, "params", EmptyDict)
        name   == IF IsMapping(params) THEN Get(params, "name", None) ELSE None
    IN  CASE name = "logstash_health_check" -> HealthWorlds \cup HangingHealthWorlds
          [] name = "logstash_check_connectivity" -> ProbeWorlds
          [] name \in {"check_backpressure", "flow_metrics"} ->
                 FlowWorlds \cup {[IdleWorld EXCEPT !.fetch = "hang"]}
          [] OTHER -> FetchWorlds

\* The same with documents held fixed and every exchange free to end in any way.
TimingWorldsFor(request) ==
    IF request.params.name = "logstash_health_check" THEN TimedHealthWorlds
    ELSE IF request.params.name = "logstash_check_connectivity" THEN ProbeWorlds
    ELSE FetchWorlds

\* The commands of a session that calls each tool with its default arguments.
TimingRequests ==
    {[id |-> "7", method |-> "initialize"], [id |-> "7", method |-> "tools/list"]}
    \cup { [id |-> "7", method |-> "tools/call", params |-> [name |-> n]] : n \in ToolNames }

(* ------------------------------- main --------------------------------- *)

Init ==
    /\ pc = "read"
    /\ is_initialized = FALSE
    /\ line = NoLine
    /\ response = NoResponse
    /\ upstream = IdleWorld
    /\ calls = <<>>
    /\ was_initialized = FALSE
    /\ first_init = NoResponse

\* A loop that reads the next line while the handler still awaits the upstream.
ReadLineWhileAwaiting ==
    /\ pc \in {"read", "await"}
    /\ \/ line' = GarbageLine
       \/ line' = ValueLine
       \/ \E m \in Methods \cup {None} : \E r \in RequestsWith(m) : line' = RequestLine(r)
    /\ pc' = "handle"
    /\ UNCHANGED <<is_initialized, response, upstream, calls, was_initialized, first_init>>

\* readline() returns a line that is not blank.
ReadLine ==
    /\ pc = "read"
    /\ \/ line' = GarbageLine
       \/ line' = ValueLine
       \/ \E m \in Methods \cup {None} : \E r \in RequestsWith(m) : line' = RequestLine(r)
    /\ pc' = "handle"
    /\ UNCHANGED <<is_initialized, response, upstream, calls, was_initialized, first_init>>

\* readline() returns a blank line: "continue".
BlankLine ==
    /\ pc = "read"
    /\ UNCHANGED vars

\* readline() returns "": "break".
Eof ==
    /\ pc = "read"
    /\ pc' = "done"
    /\ UNCHANGED <<is_initialized, line, response, upstream, calls, was_initialized, first_init>>

\* A parse error that carries the code of handle_request's own errors.
ParseErrorResponseHandlerCode ==
    [jsonrpc |-> "2.0", id |-> None,
     error |-> [code |-> HANDLER_ERROR_CODE, message |-> "Parse error"]]

\* The error_response main builds in "except json.JSONDecodeError".
ParseErrorResponse ==
    [jsonrpc |-> "2.0", id |-> None,
     error |-> [code |-> PARSE_ERROR_CODE, message |-> "Parse error"]]

\* json.loads raises JSONDecodeError: main builds the parse error itself.
ParseError ==
    /\ pc = "handle"
    /\ line.kind = "garbage"
    /\ response' = ParseErrorResponse
    /\ pc' = "emit"
    /\ UNCHANGED <<is_initialized, line, upstream, calls, was_initialized, first_init>>

\* handle_request on the request in hand, against the upstream answers w.
Handle(w) ==
    LET out == handle_request(line.data, is_initialized, w) IN
    /\ response' = out.response
    /\ is_initialized' = out.is_initialized
    /\ calls' = out.calls
    /\ upstream' = w
    /\ was_initialized' = is_initialized
    /\ pc' = "emit"
    /\ UNCHANGED line

\* json.loads returns a value that has no "get": request_data.get("method") raises
\* AttributeError before handle_request enters its try. main catches JSONDecodeError
\* and KeyboardInterrupt only, so the exception leaves the loop and asyncio.run:
\* nothing is printed and the process ends with a traceback.
UncaughtFault ==
    /\ pc = "handle"
    /\ line.kind = "value"
    /\ pc' = "crashed"
    /\ UNCHANGED <<is_initialized, line, response, upstream, calls, was_initialized, first_init>>

\* The method of the request in hand.
MethodInHand == Get(line.data, "method", None)

\* method == "initialize"
Initialize ==
    /\ pc = "handle"
    /\ line.kind = "request"
    /\ MethodInHand = "initialize"
    /\ Handle(IdleWorld)
    /\ first_init' = IF first_init = NoResponse
                     THEN Get(response', "result", NoResponse) ELSE first_init

\* method == "tools/list"
ToolsList ==
    /\ pc = "handle"
    /\ line.kind = "request"
    /\ MethodInHand = "tools/list"
    /\ Handle(IdleWorld)
    /\ UNCHANGED first_init

\* How the exchange behind an upstream request of this tool ends in w.
OutcomeOf(name, w, call) ==
    IF call = ProbeCall THEN w.probe
    ELSE IF name = "logstash_health_check"
    THEN CASE call = NodeInfoEndpoint  -> w.node
           [] call = NodeStatsEndpoint -> w.stats
           [] OTHER                    -> w.pipes
    ELSE w.fetch

\* The last upstream request of an invocation is never answered. (An exchange that
\* fails or times out ends the invocation, and the one exchange whose failure is
\* passed over, the pipelines fetch of health_check, is its last.)
Hung(request, w, made) ==
    /\ made # <<>>
    /\ OutcomeOf(Get(Get(request, "params", EmptyDict), "name", None), w,
                 made[Len(made)]) = "hang"

\* A timer that only the probe's session has.
TimerOnProbeOnly(call) == call = ProbeCall

\* The total timeout of the session behind an upstream request: ClientTimeout(total=5)
\* for the probe; make_request passes no timeout to ClientSession(), which then uses
\* the client library's default (a total of five minutes).
TimerArmed(call) ==
    CASE call = ProbeCall -> TRUE
      [] OTHER            -> TRUE

\* handle_request is suspended in "await" on an exchange that is not answered.
Suspend(w, made) ==
    /\ pc' = "await"
    /\ upstream' = w
    /\ calls' = made
    /\ was_initialized' = is_initialized
    /\ UNCHANGED <<is_initialized, line, response>>

\* tools/call against the upstream answers w: answered at once, or suspended.
Call(w) ==
    LET out == handle_request(line.data, is_initialized, w) IN
    IF Hung(line.data, w, out.calls) THEN Suspend(w, out.calls) ELSE Handle(w)

\* method == "tools/call"
ToolsCall ==
    /\ pc = "handle"
    /\ line.kind = "request"
    /\ MethodInHand = "tools/call"
    /\ \E w \in WorldsFor(line.data) : Call(w)
    /\ UNCHANGED first_init

\* The session's timer ends the exchange handle_request is suspended on; the handler
\* runs on from the exception and its response is ready to be printed.
Timeout ==
    /\ pc = "await"
    /\ TimerArmed(calls[Len(calls)])
    /\ response' = handle_request(line.data, is_initialized, upstream).response
    /\ pc' = "emit"
    /\ UNCHANGED <<is_initialized, line, upstream, calls, was_initialized, first_init>>

\* Any other method, or none.
UnknownMethod ==
    /\ pc = "handle"
    /\ line.kind = "request"
    /\ MethodInHand \notin {"initialize", "tools/list", "tools/call"}
    /\ Handle(IdleWorld)
    /\ UNCHANGED first_init

\* print(json.dumps(response), flush=True), and back to the top of the loop.
Emit ==
    /\ pc = "emit"
    /\ pc' = "read"
    /\ line' = NoLine
    /\ response' = NoResponse
    /\ upstream' = IdleWorld
    /\ calls' = <<>>
    /\ was_initialized' = FALSE
    /\ UNCHANGED <<is_initialized, first_init>>

Next ==
    \/ ReadLine
    \/ BlankLine
    \/ Eof
    \/ ParseError
    \/ UncaughtFault
    \/ Initialize
    \/ ToolsList
    \/ ToolsCall
    \/ Timeout
    \/ UnknownMethod
    \/ Emit

Spec == Init /\ [][Next]_vars

(* ----------------- main, with its scheduling assumptions -------------- *)

\* readline() returns one of the commands of TimingRequests.
ReadTimingLine ==
    /\ pc = "read"
    /\ \E r \in TimingRequests : line' = RequestLine(r)
    /\ pc' = "handle"
    /\ UNCHANGED <<is_initialized, response, upstream, calls, was_initialized, first_init>>

\* method == "tools/call", every exchange free to end in any way.
TimedCall ==
    /\ pc = "handle"
    /\ line.kind = "request"
    /\ MethodInHand = "tools/call"
    /\ \E w \in TimingWorldsFor(line.data) : Call(w)
    /\ UNCHANGED first_init

LiveNext ==
    \/ ReadTimingLine
    \/ Eof
    \/ Initialize
    \/ ToolsList
    \/ TimedCall
    \/ Timeout
    \/ Emit

\* The event loop runs every coroutine that can run: a handler that has a line in
\* hand runs to its response or to its next await, a timer that is armed fires, and
\* a response that is ready is printed. Nothing is assumed of stdin.
LiveSpec ==
    /\ Init
    /\ [][LiveNext]_vars
    /\ WF_vars(Initialize)
    /\ WF_vars(ToolsList)
    /\ WF_vars(TimedCall)
    /\ WF_vars(Timeout)
    /\ WF_vars(Emit)

(* ===================================================================== *)
(*                            the properties                             *)
(* ===================================================================== *)

\* handle_request has answered the request in hand; the response is about to be printed.
Answered == pc = "emit" /\ line.kind = "request"

\* The params of the request in hand.
ParamsInHand == Get(line.data, "params", EmptyDict)

\* tools/call reached handle_tool_call in this iteration.
Invoked ==
    /\ Answered
    /\ MethodInHand = "tools/call"
    /\ was_initialized
    /\ IsMapping(ParamsInHand)

\* The tool name and the arguments handle_tool_call was given.
NameInHand == Get(ParamsInHand, "name", None)

ArgumentsInHand == Get(ParamsInHand, "arguments", EmptyDict)

\* The response is an error envelope / a success envelope.
IsErrorEnvelope == DOMAIN response = {"jsonrpc", "id", "error"}

IsResultEnvelope == DOMAIN response = {"jsonrpc", "id", "result"}

\* The object serialized into the text block of a tools/call result.
Payload == response.result.content[1].text.json_text_of

\* The order of the status tiers; "unhealthy" stands with critical.
TierRank(status) ==
    CASE status = "healthy" -> 0
      [] status = "caution" -> 1
      [] status = "warning" -> 2
      [] OTHER -> 3

\* The elements of a sequence.
Range(seq) == { seq[i] : i \in DOMAIN seq }

(* ------------------------------- C1 ----------------------------------- *)

\* C1: while the session is Uninitialized, every command other than initialize
\* (tools/list, tools/call, any other method name) is answered with the
\* NotInitialized error "Server not initialized" and nothing else.
C1_UninitializedAnswersNotInitialized ==
    (Answered /\ ~was_initialized /\ MethodInHand # "initialize")
        => /\ IsErrorEnvelope
           /\ response.error.message = NotInitializedMessage

(* ------------------------------- C2 ----------------------------------- *)

\* C2: the flag starts Uninitialized; only an initialize command changes it, from
\* Uninitialized to Ready; it never goes back; tools/list, tools/call, unknown
\* methods and unparseable lines leave it as it is.
C2_FlagLifecycle ==
    /\ is_initialized = FALSE
    /\ [][ /\ (is_initialized' # is_initialized)
                => /\ ~is_initialized /\ is_initialized'
                   /\ pc = "handle" /\ line.kind = "request"
                   /\ MethodInHand = "initialize"
           /\ is_initialized => is_initialized'
           /\ (pc = "handle" /\ (line.kind = "garbage" \/ MethodInHand # "initialize"))
                => is_initialized' = is_initialized ]_vars

\* A Ready session has just answered a tool call that failed.
C2_Witness ==
    /\ Invoked
    /\ "error" \in DOMAIN Payload
    /\ is_initialized

(* ------------------------------- C3 ----------------------------------- *)

\* C3: initialize always succeeds and is idempotent: in either state it returns a
\* success envelope with the server identity and leaves the session Ready, and its
\* result is the one the first initialize returned.
C3_InitializeIdempotent ==
    (Answered /\ MethodInHand = "initialize")
        => /\ is_initialized
           /\ IsResultEnvelope
           /\ response.result.serverInfo = [name |-> "logstash-mcp", version |-> "1.0.0"]
           /\ response.result = first_init

\* A second initialize was answered, with the result of the first.
C3_Witness ==
    /\ Answered
    /\ MethodInHand = "initialize"
    /\ was_initialized
    /\ is_initialized
    /\ IsResultEnvelope
    /\ response.result = first_init

(* ------------------------------- C4 ----------------------------------- *)

\* check_backpressure classified a ratio that the snapshot carries.
BackpressureRead ==
    /\ Invoked
    /\ NameInHand = "check_backpressure"
    /\ IsMapping(ArgumentsInHand)
    /\ upstream.fetch = "ok"
    /\ "flow" \in DOMAIN upstream.flow
    /\ "queue_backpressure" \in DOMAIN upstream.flow.flow
    /\ "current" \in DOMAIN upstream.flow.flow.queue_backpressure

\* The ratio of the snapshot.
RatioRead == upstream.flow.flow.queue_backpressure.current

\* C4: for every ratio r read from the snapshot the status is critical iff
\* r > 0.10, warning iff 0.05 < r <= 0.10, caution iff 0.01 < r <= 0.05, healthy
\* iff r <= 0.01; r = 0.10 gives warning, r = 0.05 caution, r = 0.01 healthy and
\* r = 0.15 critical (ratios in units of 1/10000).
C4_BackpressureThresholds ==
    BackpressureRead =>
        LET r == RatioRead
            status == Payload.status
        IN  /\ (status = "critical") <=> (r > 1000)
            /\ (status = "warning")  <=> (500 < r /\ r <= 1000)
            /\ (status = "caution")  <=> (100 < r /\ r <= 500)
            /\ (status = "healthy")  <=> (r <= 100)
            /\ (r = 1000 => status = "warning")
            /\ (r = 500  => status = "caution")
            /\ (r = 100  => status = "healthy")
            /\ (r = 1500 => status = "critical")

\* The ratio 0.10 was classified, as warning.
C4_Witness ==
    /\ BackpressureRead
    /\ RatioRead = 1000
    /\ Payload.status = "warning"

(* ------------------------------- C5 ----------------------------------- *)

\* health_check got past the probe and fetched node info and node statistics.
HealthStatsSeen ==
    /\ Invoked
    /\ NameInHand = "logstash_health_check"
    /\ upstream.probe = "ok"
    /\ upstream.node = "ok"
    /\ upstream.stats = "ok"

\* The issues that speak of heap usage.
HeapIssues == { HeapIssue(h) : h \in 0..100 }

\* The heap-used-percent the check sees, when the JVM memory block carries one.
HeapValueSeen ==
    /\ "mem" \in DOMAIN upstream.jvm
    /\ "heap_used_percent" \in DOMAIN upstream.jvm.mem

\* C5: for every heap-used-percent h the composite health check sees: h > 80 gives
\* a tier of at least warning and an issue mentioning heap usage; h <= 80, or no
\* JVM memory block, adds no heap issue.
C5_HeapCheck ==
    HealthStatsSeen =>
        IF HeapValueSeen /\ upstream.jvm.mem.heap_used_percent > 80
        THEN /\ TierRank(Payload.overall_status) >= TierRank("warning")
             /\ HeapIssue(upstream.jvm.mem.heap_used_percent) \in Range(Payload.issues)
        ELSE Range(Payload.issues) \cap HeapIssues = {}

\* A heap usage of 81 percent was reported.
C5_Witness ==
    /\ HealthStatsSeen
    /\ HeapValueSeen
    /\ upstream.jvm.mem.heap_used_percent = 81
    /\ Payload.overall_status = "warning"
    /\ HeapIssue(81) \in Range(Payload.issues)

(* ------------------------------- C6 ----------------------------------- *)

\* health_check fetched the pipeline statistics and looped over them.
HealthPipelinesSeen == HealthStatsSeen /\ upstream.pipes = "ok"

\* How often an issue occurs in the assessment.
Occurrences(issue) == Cardinality({ k \in DOMAIN Payload.issues : Payload.issues[k] = issue })

\* The i-th pipeline of the snapshot reports both counts, filtered > 0 and out = 0.
StarvesAt(i) ==
    LET stats == upstream.pipelines[i] IN
    /\ "events" \in DOMAIN stats
    /\ DOMAIN stats.events = {"filtered", "out"}
    /\ stats.events.filtered > 0
    /\ stats.events.out = 0

\* The i-th pipeline of the snapshot reports an out count above 0.
DeliversAt(i) ==
    LET stats == upstream.pipelines[i] IN
    /\ "events" \in DOMAIN stats
    /\ "out" \in DOMAIN stats.events
    /\ stats.events.out > 0

\* C6: for every pipeline of the pipeline statistics: filtered > 0 and out = 0 gives
\* an issue naming that pipeline and a tier of at least warning; out > 0 never gives
\* that issue, whatever the filtered count; each starving pipeline gets one issue.
C6_PipelineStarvation ==
    HealthPipelinesSeen =>
        \A i \in DOMAIN upstream.pipelines :
            /\ StarvesAt(i) => /\ Occurrences(PipelineIssue(PipelineId(i))) = 1
                               /\ TierRank(Payload.overall_status) >= TierRank("warning")
            /\ DeliversAt(i) => Occurrences(PipelineIssue(PipelineId(i))) = 0

\* Every pipeline of a snapshot with at least two starves, next to one that delivers
\* or alone, and each has its issue.
C6_Witness ==
    /\ HealthPipelinesSeen
    /\ Len(upstream.pipelines) >= 2
    /\ StarvesAt(1)
    /\ StarvesAt(2)
    /\ Occurrences(PipelineIssue(PipelineId(1))) = 1
    /\ Occurrences(PipelineIssue(PipelineId(2))) = 1
    /\ Payload.overall_status = "warning"

(* ------------------------------- C7 ----------------------------------- *)

\* health_check ran and its probe did not connect.
HealthProbeFailed ==
    /\ Invoked
    /\ NameInHand = "logstash_health_check"
    /\ upstream.probe # "ok"

\* C7: when the probe fails (unreachable or a non-success status) the composite
\* health check returns "unhealthy" with exactly one issue, the connectivity issue,
\* and makes no later fetch, whatever node info, heap and pipelines would have been.
C7_ConnectivityShortCircuit ==
    HealthProbeFailed =>
        /\ Payload.overall_status = "unhealthy"
        /\ "issues" \in DOMAIN Payload
        /\ Len(Payload.issues) = 1
        /\ Payload.issues[1] \in {"Connectivity issue: HTTP 500",
                                  "Connectivity issue: Cannot connect to host",
                                  "Connectivity issue: "}
        /\ Len(Payload.recommendations) = 1
        /\ calls = <<ProbeCall>>

\* The probe met a non-success status while the heap was at 81 percent and a
\* pipeline starved, and the later fetches would have succeeded.
C7_Witness ==
    /\ HealthProbeFailed
    /\ upstream.probe = "http"
    /\ upstream.node = "ok" /\ upstream.stats = "ok" /\ upstream.pipes = "ok"
    /\ upstream.jvm = [mem |-> [heap_used_percent |-> 81]]
    /\ Len(upstream.pipelines) >= 1
    /\ StarvesAt(1)
    /\ Len(Payload.issues) = 1
    /\ calls = <<ProbeCall>>

(* ------------------------------- C8 ----------------------------------- *)

\* tools/call asked, in the Ready state, for a name the registry does not list.
UnknownToolInvoked == Invoked /\ NameInHand \notin ToolNames

\* C8: in the Ready state, tools/call with a name that is not in the registry, a
\* missing name included, returns the unknown-tool error, the error payload echoes
\* the requested name, and no upstream call is made.
C8_UnknownTool ==
    UnknownToolInvoked =>
        /\ IsResultEnvelope
        /\ "error" \in DOMAIN Payload
        /\ Payload.error = "Unknown tool: " \o PyStr(NameInHand)
        /\ Payload.tool = NameInHand
        /\ calls = <<>>

\* An unlisted name was asked for and echoed while the upstream was down.
C8_Witness ==
    /\ UnknownToolInvoked
    /\ NameInHand = "bogus_tool"
    /\ Payload.tool = "bogus_tool"
    /\ Payload.error = "Unknown tool: bogus_tool"
    /\ upstream.fetch = "down"
    /\ calls = <<>>

(* ------------------------------- C9 ----------------------------------- *)

\* tools/call asked, in the Ready state, for logstash_pipeline_stats without an id.
PipelineStatsWithoutId ==
    /\ Invoked
    /\ NameInHand = "logstash_pipeline_stats"
    /\ (IsMapping(ArgumentsInHand) => "id" \notin DOMAIN ArgumentsInHand)

\* C9: in the Ready state, tools/call for logstash_pipeline_stats whose arguments
\* carry no id returns an invalid-arguments error and the upstream is not contacted
\* during that invocation.
C9_PipelineIdRequired ==
    PipelineStatsWithoutId =>
        /\ IsResultEnvelope
        /\ "error" \in DOMAIN Payload
        /\ Payload.tool = "logstash_pipeline_stats"
        /\ Payload.arguments = ArgumentsInHand
        /\ (IsMapping(ArgumentsInHand) => Payload.error = "Pipeline ID is required")
        /\ calls = <<>>

\* The id was missing from arguments that carried another field.
C9_Witness ==
    /\ PipelineStatsWithoutId
    /\ IsMapping(ArgumentsInHand)
    /\ "human" \in DOMAIN ArgumentsInHand
    /\ Payload.error = "Pipeline ID is required"
    /\ calls = <<>>

(* ------------------------------- C10 ---------------------------------- *)

\* The request in hand failed in handle_request itself: a method it does not know,
\* or a command that came before initialize.
UnknownMethodFailure ==
    Answered /\ MethodInHand \notin {"initialize", "tools/list", "tools/call"}

BeforeInitializeFailure ==
    Answered /\ MethodInHand \in {"tools/list", "tools/call"} /\ ~was_initialized

\* The tools whose action is one make_request.
FetchingTools == ToolNames \ {"logstash_check_connectivity", "logstash_health_check"}

\* The tool's action raised: the name is not listed, the arguments are no mapping
\* where the action reads them, the pipeline id is missing, or the upstream request
\* of the action failed.
ToolExecutionError ==
    /\ Invoked
    /\ \/ NameInHand \notin ToolNames
       \/ NameInHand \in ReadsArguments /\ ~IsMapping(ArgumentsInHand)
       \/ /\ NameInHand = "logstash_pipeline_stats"
          /\ IsMapping(ArgumentsInHand)
          /\ ~Truthy(Get(ArgumentsInHand, "id", None))
       \/ /\ NameInHand \in FetchingTools
          /\ upstream.fetch # "ok"

\* The response is an error envelope {id, error} with code -32602 and the id of
\* the request.
HandlerErrorEnvelope ==
    /\ IsErrorEnvelope
    /\ response.id = Get(line.data, "id", None)
    /\ response.error.code = -32602

\* C10 as stated: every handler-level failure of the three kinds unknown method,
\* command before initialize and tool execution error is answered with an error
\* envelope {id, error} whose code is -32602.
C10_AllFailuresAreErrorEnvelopes ==
    (UnknownMethodFailure \/ BeforeInitializeFailure \/ ToolExecutionError)
        => HandlerErrorEnvelope

\* C10 as amended: an unknown method and a command before initialize are answered
\* with an error envelope {id, error} whose code is -32602; a tool execution error
\* is answered with a success envelope whose text block carries the error.
C10_HandlerFailuresAreErrorEnvelopes ==
    /\ (UnknownMethodFailure \/ BeforeInitializeFailure) => HandlerErrorEnvelope
    /\ ToolExecutionError => /\ IsResultEnvelope
                             /\ response.id = Get(line.data, "id", None)
                             /\ DOMAIN Payload = {"error", "tool", "arguments"}

\* A tool's upstream request failed in the Ready state and the error came back in
\* a success envelope.
C10_Witness ==
    /\ ToolExecutionError
    /\ NameInHand = "logstash_node_info"
    /\ upstream.fetch = "http"
    /\ IsResultEnvelope
    /\ Payload.error = "HTTP 500: Internal Server Error"

(* ------------------------------- C11 ---------------------------------- *)

\* The error code of the response in hand, 0 when it carries none.
ResponseCode == Get(Get(response, "error", EmptyDict), "code", 0)

\* C11: a response carries -32700 exactly when json.loads rejected the line; that
\* response has a null id, no upstream call was made for the line, and the step
\* that builds it leaves the session flag as it was.
C11_ParseErrorOnlyForUnparseable ==
    /\ [](pc = "emit" =>
            /\ (ResponseCode = PARSE_ERROR_CODE) <=> (line.kind = "garbage")
            /\ line.kind = "garbage" =>
                 /\ response.id = None
                 /\ DOMAIN response = {"jsonrpc", "id", "error"}
                 /\ calls = <<>>
                 /\ upstream = IdleWorld
                 /\ ~was_initialized)
    /\ [][pc = "handle" /\ line.kind = "garbage" =>
            /\ pc' = "emit"
            /\ is_initialized' = is_initialized
            /\ first_init' = first_init]_vars

\* A Ready session has answered an unparseable line.
C11_Witness ==
    /\ pc = "emit"
    /\ line.kind = "garbage"
    /\ is_initialized
    /\ ResponseCode = PARSE_ERROR_CODE
    /\ response.id = None

(* ------------------------------- C12 ---------------------------------- *)

\* C12: no line ends the process through an uncaught exception: the main loop never
\* leaves a line in hand without printing a response for it.
C12_NoUncaughtFault == pc # "crashed"

(* ------------------------------- C13 ---------------------------------- *)

\* The invocation in hand met an upstream request that was never answered.
MetHang == line.kind = "request" /\ Hung(line.data, upstream, calls)

\* The response in hand reports a failure: an error text, or an unhealthy assessment.
FailureReported ==
    /\ IsResultEnvelope
    /\ \/ "error" \in DOMAIN Payload
       \/ Get(Payload, "overall_status", None) = "unhealthy"

\* The upstream request that was not answered is health_check's fetch of the
\* pipeline statistics.
PipelinesFetchHung ==
    /\ NameInHand = "logstash_health_check"
    /\ calls[Len(calls)] = PipelinesStatsEndpoint

JsonType(v) ==
    CASE v \in {"true", "false"} -> "boolean"
      [] v \in {"5", "7"}        -> "integer"
      [] OTHER                   -> "string"

\* The properties the descriptor of the tool in hand declares.
DeclaredProperties == Descriptor(NameInHand).inputSchema.properties

\* A declared argument was sent with a value of another type than the declared one.
IllTypedArgument ==
    /\ Invoked
    /\ NameInHand \in ToolNames
    /\ IsMapping(ArgumentsInHand)
    /\ \E k \in DOMAIN ArgumentsInHand \cap DOMAIN DeclaredProperties :
          JsonType(ArgumentsInHand[k]) # DeclaredProperties[k].type

\* C14: a tools/call whose argument does not have the declared type returns an error
\* and makes no upstream request.
C14_IllTypedArgumentsRejected ==
    IllTypedArgument => "error" \in DOMAIN Payload /\ calls = <<>>

(* ------------------------------- C15 ---------------------------------- *)

\* check_backpressure has fetched the flow statistics.
BackpressureFetched ==
    /\ Invoked
    /\ NameInHand = "check_backpressure"
    /\ IsMapping(ArgumentsInHand)
    /\ upstream.fetch = "ok"

\* The snapshot holds a backpressure ratio: flow.queue_backpressure.current.
RatioPresent ==
    "current" \in DOMAIN Get(Get(upstream.flow, "flow", EmptyDict), "queue_backpressure", EmptyDict)

\* C15: check_backpressure returns "Backpressure data not available" whenever the
\* snapshot holds no ratio, and a status only when it holds one.
C15_NoStatusFromDefaultedRatio ==
    BackpressureFetched =>
        IF RatioPresent
        THEN "status" \in DOMAIN Payload
        ELSE Payload = [error |-> "Backpressure data not available"]

(* ------------------------------- C16 ---------------------------------- *)

\* flow_metrics has fetched the node statistics.
FlowFetched ==
    /\ Invoked
    /\ NameInHand = "flow_metrics"
    /\ IsMapping(ArgumentsInHand)
    /\ upstream.fetch = "ok"

\* The flow block of the snapshot, {} when there is none.
FlowBlock == Get(upstream.flow, "flow", EmptyDict)

\* The "current" sample of one flow metric, 0 when the block does not hold it.
CurrentSample(key) == Get(Get(FlowBlock, key, EmptyDict), "current", 0)

\* What flow_metrics returns for a flow block.
IsFlowSummary ==
    /\ DOMAIN Payload = {"timestamp", "flow_metrics", "summary"}
    /\ Payload.timestamp = Get(upstream.flow, "timestamp", None)
    /\ Payload.flow_metrics = FlowBlock
    /\ DOMAIN Payload.summary = {"current_worker_concurrency", "current_queue_backpressure",
                                 "input_throughput", "output_throughput"}
    /\ Payload.summary.current_worker_concurrency = CurrentSample("worker_concurrency")
    /\ Payload.summary.current_queue_backpressure = CurrentSample("queue_backpressure")
    /\ Payload.summary.input_throughput = CurrentSample("input_throughput")
    /\ Payload.summary.output_throughput = CurrentSample("output_throughput")

\* C16 as stated: "Flow metrics not available" when the snapshot has no flow block,
\* the summary whenever it has one.
C16_SummaryWheneverFlowPresent ==
    FlowFetched =>
        IF "flow" \in DOMAIN upstream.flow
        THEN IsFlowSummary
        ELSE Payload = [error |-> "Flow metrics not available"]

\* C16, amended: "Flow metrics not available" when the flow block is absent or
\* empty; otherwise the summary of the four "current" samples (0 for a sample the
\* block does not hold), the full flow block and the snapshot timestamp.
C16_FlowSummary ==
    FlowFetched =>
        IF DOMAIN FlowBlock # {}
        THEN IsFlowSummary
        ELSE Payload = [error |-> "Flow metrics not available"]

\* A flow block with all four samples has been summarized.
C16_Witness ==
    /\ FlowFetched
    /\ DOMAIN FlowBlock = {"queue_backpressure", "worker_concurrency",
                           "input_throughput", "output_throughput"}
    /\ Payload.summary = [current_worker_concurrency |-> 2, current_queue_backpressure |-> 501,
                          input_throughput |-> 40, output_throughput |-> 39]

(* ------------------------------- C17 ---------------------------------- *)

\* The snapshot lacks the block the tool reports on.
MetricUnavailable ==
    \/ BackpressureFetched /\ DOMAIN Get(FlowBlock, "queue_backpressure", EmptyDict) = {}
    \/ FlowFetched /\ DOMAIN FlowBlock = {}

\* The composite health check failed after a successful probe.
HealthCheckAborted ==
    /\ Invoked
    /\ NameInHand = "logstash_health_check"
    /\ upstream.probe = "ok"
    /\ upstream.node # "ok" \/ upstream.stats # "ok"

\* C17: every tool-execution error returned by tools/call (unknown tool, invalid
\* arguments, upstream failure, metric unavailable, failed composite health check)
\* holds a message, the tool name and the arguments that were supplied.
C17_ErrorsEchoToolAndArguments ==
    (ToolExecutionError \/ MetricUnavailable \/ HealthCheckAborted) =>
        /\ DOMAIN Payload = {"error", "tool", "arguments"}
        /\ Payload.tool = NameInHand
        /\ Payload.arguments = ArgumentsInHand

(* ------------------------------- C18 ---------------------------------- *)

\* A Ready session has answered tools/list.
ListAnswered ==
    /\ Answered
    /\ MethodInHand = "tools/list"
    /\ was_initialized

\* The names in the order of the registry.
RegistryOrder ==
    <<"logstash_check_connectivity", "logstash_node_info", "logstash_node_stats",
      "logstash_pipelines_stats", "logstash_pipeline_stats", "logstash_hot_threads",
      "logstash_plugins", "check_backpressure", "logstash_health_check",
      "logstash_jvm_stats", "logstash_health_report", "flow_metrics">>

\* C18: every tools/list of a Ready session returns the whole registry: twelve
\* descriptors, their names pairwise distinct and in the declared order, and the
\* same list whatever was answered before.
C18_ToolsListIsTheRegistry ==
    ListAnswered =>
        /\ IsResultEnvelope
        /\ DOMAIN response.result = {"tools"}
        /\ LET tools == response.result.tools
           IN  /\ Len(tools) = 12
               /\ \A i, j \in 1..Len(tools) : tools[i].name = tools[j].name => i = j
               /\ [i \in 1..Len(tools) |-> tools[i].name] = RegistryOrder
               /\ tools = get_tools

\* tools/list answered by a session that was initialized earlier.
C18_Witness ==
    /\ ListAnswered
    /\ first_init # NoResponse
    /\ Len(response.result.tools) = 12
    /\ response.result.tools[12].name = "flow_metrics"

(* ------------------------------- C19 ---------------------------------- *)

\* health_check asked for the pipeline statistics and the fetch failed.
PipelinesFetchFailed == HealthStatsSeen /\ upstream.pipes # "ok"

\* The heap usage the check acts on: above the threshold or not.
HeapAboveThreshold == HeapValueSeen /\ upstream.jvm.mem.heap_used_percent > HEAP_THRESHOLD

\* C19: when the pipeline statistics cannot be fetched the assessment is the one the
\* probe and heap checks produced: no error field, no issue beyond the heap issue,
\* the tier the heap check set, exactly as if there were no pipelines.
C19_PipelinesSkippedSilently ==
    PipelinesFetchFailed =>
        /\ DOMAIN Payload = DOMAIN InitialHealthStatus
        /\ Payload.overall_status = IF HeapAboveThreshold THEN "warning" ELSE "healthy"
        /\ Range(Payload.issues) \subseteq HeapIssues
        /\ Len(Payload.issues) = IF HeapAboveThreshold THEN 1 ELSE 0
        /\ Len(Payload.recommendations) = Len(Payload.issues)
        /\ Payload = health_check([upstream EXCEPT !.pipes = "ok", !.pipelines = <<>>]).result
        /\ calls[Len(calls)] = PipelinesStatsEndpoint

\* The fetch failed while the heap stood at 81 percent and a pipeline starved.
C19_Witness ==
    /\ PipelinesFetchFailed
    /\ upstream.pipes = "down"
    /\ HeapAboveThreshold
    /\ Len(upstream.pipelines) > 0
    /\ StarvesAt(1)
    /\ Payload.overall_status = "warning"
    /\ Len(Payload.issues) = 1

(* ------------------------------- C20 ---------------------------------- *)

\* C20: after a successful probe a failed fetch of node info or node statistics
\* ends the check with an unhealthy result that carries the error, and the pipeline
\* statistics are not asked for; a failed fetch of the pipeline statistics alone
\* leaves a result without an error.
C20_OnlyPipelinesFailureIsNonFatal ==
    /\ HealthCheckAborted =>
          /\ DOMAIN Payload = {"overall_status", "error", "timestamp"}
          /\ Payload.overall_status = "unhealthy"
          /\ Payload.error = make_request(calls[Len(calls)],
                                          IF upstream.node # "ok" THEN upstream.node
                                          ELSE upstream.stats, EmptyDict).error
          /\ PipelinesStatsEndpoint \notin Range(calls)
          /\ calls[Len(calls)] = IF upstream.node # "ok" THEN NodeInfoEndpoint
                                 ELSE NodeStatsEndpoint
    /\ PipelinesFetchFailed => "error" \notin DOMAIN Payload

\* The node statistics could not be fetched after node info was.
C20_Witness ==
    /\ HealthCheckAborted
    /\ upstream.node = "ok"
    /\ upstream.stats = "down"
    /\ Payload.overall_status = "unhealthy"
    /\ calls = <<ProbeCall, NodeInfoEndpoint, NodeStatsEndpoint>>

(* ------------------------------- C21 ---------------------------------- *)

\* The composite health check has answered.
HealthAnswered == Invoked /\ NameInHand = "logstash_health_check"

\* The i-th pipeline of the snapshot makes the pipeline check record an issue.
RaisesAt(i) ==
    LET stats == upstream.pipelines[i] IN
    /\ "events" \in DOMAIN stats
    /\ Get(stats.events, "filtered", 0) > 0
    /\ Get(stats.events, "out", 0) = 0

\* The pipelines the pass looked at: none when their statistics were not fetched.
PipelinesChecked ==
    IF HealthStatsSeen /\ upstream.pipes = "ok" THEN 1..Len(upstream.pipelines) ELSE {}

\* The severity each check of the pass met, as a tier rank.
ProbeSeverity == IF upstream.probe # "ok" THEN TierRank("unhealthy") ELSE TierRank("healthy")

FetchSeverity ==
    IF upstream.probe = "ok" /\ (upstream.node # "ok" \/ upstream.stats # "ok")
    THEN TierRank("unhealthy") ELSE TierRank("healthy")

HeapSeverity ==
    IF HealthStatsSeen /\ HeapAboveThreshold THEN TierRank("warning") ELSE TierRank("healthy")

PipelineSeverity(i) == IF RaisesAt(i) THEN TierRank("warning") ELSE TierRank("healthy")

\* The greatest of a non-empty set of ranks.
MaxRank(S) == CHOOSE m \in S : \A n \in S : n <= m

\* The tier after the heap check and after each of the first i pipelines.
TierAfterHeap == HeapCheck(InitialHealthStatus, upstream.jvm).overall_status

TierAfterPipeline(i) ==
    PipelinesLoop(HeapCheck(InitialHealthStatus, upstream.jvm),
                  SubSeq(upstream.pipelines, 1, i), 1).overall_status

\* C21: within one pass of the composite health check the tier after each check is
\* the greatest severity met so far, so it never goes down, and the tier returned
\* is the greatest severity of the pass.
C21_TierIsMaximum ==
    HealthAnswered =>
        /\ TierRank(Payload.overall_status) =
               MaxRank({ProbeSeverity, FetchSeverity, HeapSeverity}
                       \cup { PipelineSeverity(i) : i \in PipelinesChecked })
        /\ HealthStatsSeen =>
              /\ TierRank(TierAfterHeap) = HeapSeverity
              /\ \A i \in PipelinesChecked :
                    /\ TierRank(TierAfterPipeline(i)) =
                           MaxRank({HeapSeverity} \cup { PipelineSeverity(k) : k \in 1..i })
                    /\ TierRank(TierAfterPipeline(i)) >= TierRank(TierAfterPipeline(i - 1))
              /\ upstream.pipes = "ok" =>
                    Payload.overall_status = TierAfterPipeline(Len(upstream.pipelines))

\* The heap check raised the tier, one pipeline raised an issue and the next did not.
C21_Witness ==
    /\ HealthAnswered
    /\ HealthStatsSeen
    /\ upstream.pipes = "ok"
    /\ HeapAboveThreshold
    /\ Len(upstream.pipelines) = 2
    /\ RaisesAt(1)
    /\ ~RaisesAt(2)
    /\ Payload.overall_status = "warning"

(* ------------------------------- C22 ---------------------------------- *)

\* The probe connected, both fetches succeeded, and neither the heap check nor any
\* pipeline looked at recorded an issue.
NothingToReport ==
    /\ HealthStatsSeen
    /\ ~HeapAboveThreshold
    /\ \A i \in PipelinesChecked : ~RaisesAt(i)

\* C22: a composite health check that connects and records no heap or pipeline
\* issue returns "healthy" with empty issues and recommendations; and a health check
\* returns "healthy" only with an empty issue list.
C22_HealthyIffNoIssues ==
    /\ NothingToReport =>
          /\ Payload.overall_status = "healthy"
          /\ Payload.issues = <<>>
          /\ Payload.recommendations = <<>>
    /\ (HealthAnswered /\ Get(Payload, "overall_status", None) = "healthy") =>
          /\ "issues" \in DOMAIN Payload
          /\ Payload.issues = <<>>

\* A heap at the threshold and two pipelines that deliver: nothing recorded.
C22_Witness ==
    /\ NothingToReport
    /\ upstream.pipes = "ok"
    /\ HeapValueSeen
    /\ upstream.jvm.mem.heap_used_percent = HEAP_THRESHOLD
    /\ Len(upstream.pipelines) = 2
    /\ Payload.overall_status = "healthy"
    /\ Payload.issues = <<>>

(* ------------------------------- C23 ---------------------------------- *)

\* Every make_request of the health check meets a connection error.
MakeRequestsDown ==
    /\ HealthAnswered
    /\ upstream.node = "down"
    /\ upstream.stats = "down"
    /\ upstream.pipes = "down"

\* health_check returned a dict of its own: no exception reached handle_tool_call.
HealthCheckReturned == IsResultEnvelope /\ "tool" \notin DOMAIN Payload

NothingInHand == line = NoLine /\ response = NoResponse /\ calls = <<>>

\* C24: commands are processed one at a time. A line is read only when nothing of an
\* earlier command is in hand; the line in hand stays until its response is printed;
\* upstream calls are made only for the line in hand, before its response exists;
\* and the response printed is the one built for the line in hand.
C24_OneCommandAtATime ==
    /\ [](/\ pc = "read" => NothingInHand
          /\ pc \in {"handle", "await"} => line # NoLine /\ response = NoResponse
          /\ pc = "handle" => calls = <<>>
          /\ pc = "await" => calls # <<>>
          /\ pc = "emit" => line # NoLine /\ response # NoResponse)
    /\ [][/\ line' # line =>
                \/ pc = "read" /\ NothingInHand /\ line' # NoLine /\ pc' = "handle"
                \/ pc = "emit" /\ line' = NoLine /\ pc' = "read"
          /\ calls' # calls =>
                \/ pc = "handle" /\ line' = line
                \/ pc = "emit" /\ calls' = <<>>
          /\ response' # response =>
                \/ pc \in {"handle", "await"} /\ line' = line /\ pc' = "emit"
                \/ pc = "emit" /\ response' = NoResponse]_vars

\* A tool call that waited for the upstream has its response in hand, the same line
\* still in hand.
C24_Witness ==
    /\ pc = "emit"
    /\ MetHang
    /\ NameInHand = "logstash_health_check"
    /\ Len(calls) = 4
    /\ response # NoResponse

(* ------------------------------- C25 ---------------------------------- *)

\* C25: every tools/call that reaches the dispatcher in the Ready state, whatever the
\* tool and whether its action succeeded or failed, is answered with a result whose
\* content is exactly one block of type "text" holding the serialized object the
\* tool returned.
C25_ResultIsOneTextBlock ==
    Invoked =>
        /\ IsResultEnvelope
        /\ DOMAIN response.result = {"content"}
        /\ Len(response.result.content) = 1
        /\ DOMAIN response.result.content[1] = {"type", "text"}
        /\ response.result.content[1].type = "text"
        /\ response.result.content[1].text =
               json_dumps(handle_tool_call(NameInHand, ArgumentsInHand, upstream).result)

\* A tool whose upstream request failed was answered with one block holding the error.
C25_Witness ==
    /\ Invoked
    /\ NameInHand = "logstash_plugins"
    /\ upstream.fetch = "down"
    /\ Len(response.result.content) = 1
    /\ "error" \in DOMAIN Payload

(* ------------------------------- C26 ---------------------------------- *)

\* A listed tool was called with an arguments object.
ResolvedCall ==
    /\ Invoked
    /\ NameInHand \in ToolNames
    /\ IsMapping(ArgumentsInHand)

\* The arguments in hand without the fields the tool's descriptor does not declare.
DeclaredArguments ==
    [k \in DOMAIN ArgumentsInHand \cap DOMAIN DeclaredProperties |-> ArgumentsInHand[k]]

\* What the same call returns and requests when sent without the undeclared fields,
\* against the same upstream answers.
WithoutUndeclared == handle_tool_call(NameInHand, DeclaredArguments, upstream)

\* C26 as stated: a call and the same call without its undeclared argument fields
\* make the same upstream requests and return the same result.
C26_UndeclaredArgumentsChangeNothing ==
    ResolvedCall =>
        /\ calls = WithoutUndeclared.calls
        /\ Payload = WithoutUndeclared.result

\* C26, amended: the two calls make the same upstream requests and return the same
\* result, except that an error result echoes the arguments as they were supplied,
\* undeclared fields included; its message and tool name are the same.
C26_UndeclaredArgumentsOnlyEchoed ==
    ResolvedCall =>
        /\ calls = WithoutUndeclared.calls
        /\ DOMAIN Payload = DOMAIN WithoutUndeclared.result
        /\ IF DOMAIN Payload = {"error", "tool", "arguments"}
           THEN /\ Payload.error = WithoutUndeclared.result.error
                /\ Payload.tool = WithoutUndeclared.result.tool
                /\ Payload.arguments = ArgumentsInHand
                /\ WithoutUndeclared.result.arguments = DeclaredArguments
           ELSE Payload = WithoutUndeclared.result

\* hot_threads called with a declared and an undeclared argument, and answered.
C26_Witness ==
    /\ ResolvedCall
    /\ NameInHand = "logstash_hot_threads"
    /\ DOMAIN ArgumentsInHand = {"threads", "verbose"}
    /\ upstream.fetch = "ok"
    /\ calls = <<"/_node/hot_threads?threads=5&human=true">>
    /\ "error" \notin DOMAIN Payload

(* ------------------------------- C27 ---------------------------------- *)

\* C27: every response handle_request produces carries the id of the request it
\* answers (null when the request has none) and exactly one of "result" and "error".
C27_IdAndOneOfResultError ==
    Answered =>
        /\ "id" \in DOMAIN response
        /\ response.id = Get(line.data, "id", None)
        /\ ("result" \in DOMAIN response) # ("error" \in DOMAIN response)
        /\ IsResultEnvelope \/ IsErrorEnvelope

\* A request with an id was answered with an error by a session that was initialized.
C27_Witness ==
    /\ Answered
    /\ "id" \in DOMAIN line.data
    /\ response.id = "7"
    /\ IsErrorEnvelope
    /\ first_init # NoResponse

(* ------------------------------- C28 ---------------------------------- *)

\* The payload is the error of the dispatcher's final else.
UnknownToolAnswer == Get(Payload, "error", None) = "Unknown tool: " \o PyStr(NameInHand)

\* The arguments in hand, each absent argument for which the registry declares a
\* default filled in with that default.
WithRegistryDefaults ==
    LET defaulted == { k \in DOMAIN DeclaredProperties : "default" \in DOMAIN DeclaredProperties[k] }
    IN  [k \in DOMAIN ArgumentsInHand \cup defaulted |->
            IF k \in DOMAIN ArgumentsInHand THEN ArgumentsInHand[k]
            ELSE DeclaredProperties[k].default]

\* What the dispatcher does with the defaults of the registry written out.
WithDefaultsSent == handle_tool_call(NameInHand, WithRegistryDefaults, upstream)

\* C28: the names the dispatcher tests are the names the registry lists; a call is
\* answered "Unknown tool" exactly when its name is not listed; and a call that
\* leaves optional arguments out requests and returns what the same call with the
\* registry's defaults written out does.
C28_RegistryMatchesDispatcher ==
    /\ Range(DispatchedNames) = ToolNames
    /\ Len(DispatchedNames) = Len(get_tools)
    /\ Invoked => (UnknownToolAnswer <=> NameInHand \notin ToolNames)
    /\ ResolvedCall =>
          /\ calls = WithDefaultsSent.calls
          /\ "error" \notin DOMAIN Payload => Payload = WithDefaultsSent.result

\* hot_threads called without arguments asked for three threads, readable.
C28_Witness ==
    /\ ResolvedCall
    /\ NameInHand = "logstash_hot_threads"
    /\ ArgumentsInHand = EmptyDict
    /\ upstream.fetch = "ok"
    /\ calls = <<"/_node/hot_threads?threads=3&human=true">>

(* ------------------------------- C29 ---------------------------------- *)

\* A tools/call was answered by a session that was Uninitialized.
RejectedCall ==
    /\ Answered
    /\ MethodInHand = "tools/call"
    /\ ~was_initialized

\* C29: no upstream request is made while the session is Uninitialized: whenever a
\* request has been made an initialize was answered before, and a tools/call
\* rejected as not initialized has made none.
C29_NoUpstreamBeforeInitialize ==
    /\ [](/\ calls # <<>> => is_initialized /\ was_initialized /\ first_init # NoResponse
          /\ pc = "await" => is_initialized /\ first_init # NoResponse
          /\ RejectedCall =>
                /\ calls = <<>>
                /\ IsErrorEnvelope
                /\ response.error.message = "Server not initialized")
    /\ [][calls' # calls /\ calls' # <<>> => is_initialized]_vars

\* A health check sent to an Uninitialized session was rejected without a request.
C29_Witness ==
    /\ RejectedCall
    /\ IsMapping(ParamsInHand)
    /\ NameInHand = "logstash_health_check"
    /\ calls = <<>>
    /\ ~is_initialized

(* ------------------------------- C30 ---------------------------------- *)

\* The indexes of the pipelines looked at that make the check record an issue, in
\* the order of the snapshot.
RaisingPipelines ==
    IF PipelinesChecked = {} THEN <<>>
    ELSE SelectSeq([i \in 1..Len(upstream.pipelines) |-> i], RaisesAt)

\* The issues and recommendations the checks of a pass that got past the probe
\* record, in evaluation order: the heap check, then the pipelines.
ExpectedIssues ==
    (IF HeapAboveThreshold
     THEN <<"High JVM heap usage: " \o ToString(upstream.jvm.mem.heap_used_percent) \o "%">>
     ELSE <<>>)
    \o [k \in 1..Len(RaisingPipelines) |->
           "Pipeline " \o PipelineId(RaisingPipelines[k]) \o " has filtered events but no output"]

ExpectedRecommendations ==
    (IF HeapAboveThreshold
     THEN <<"Consider increasing JVM heap size or optimizing memory usage">>
     ELSE <<>>)
    \o [k \in 1..Len(RaisingPipelines) |->
           "Check pipeline " \o PipelineId(RaisingPipelines[k])
           \o " configuration for output issues"]

\* The recommendation that goes with the connectivity issue of each probe outcome.
ConnectivityAdvice ==
    IF upstream.probe = "http" THEN "Check Logstash connectivity"
    ELSE "Verify Logstash URL and network connectivity"

\* C30: in every assessment with an issue list, issues and recommendations have the
\* same length and the i-th recommendation is the one of the i-th issue: the
\* connectivity issue alone when the probe failed, otherwise the heap issue first
\* and the pipeline issues after it in the order of the snapshot.
C30_IssuesPairedWithRecommendations ==
    (HealthAnswered /\ "issues" \in DOMAIN Payload) =>
        /\ Len(Payload.issues) = Len(Payload.recommendations)
        /\ IF upstream.probe # "ok"
           THEN /\ Len(Payload.issues) = 1
                /\ Payload.recommendations = <<ConnectivityAdvice>>
           ELSE /\ Payload.issues = ExpectedIssues
                /\ Payload.recommendations = ExpectedRecommendations

\* A heap issue followed by the issues of two pipelines.
C30_Witness ==
    /\ HealthAnswered
    /\ HealthStatsSeen
    /\ upstream.pipes = "ok"
    /\ Len(Payload.issues) = 3
    /\ Payload.recommendations[1] = "Consider increasing JVM heap size or optimizing memory usage"
    /\ Payload.recommendations[3] = "Check pipeline p2 configuration for output issues"

(* ------------------------------- C31 ---------------------------------- *)

\* The connectivity probe was called as a tool.
ProbeAnswered == Invoked /\ NameInHand = "logstash_check_connectivity"

\* C31: the probe never raises. For every upstream outcome it returns a report of its
\* own whose status is "connected" for status 200, "error" for another status and
\* "unreachable" for a failure or a timeout; every report that is not "connected"
\* holds an "error" field, and the health check builds its connectivity issue from it.
C31_ProbeNeverRaises ==
    /\ ProbeAnswered =>
          /\ IsResultEnvelope
          /\ "tool" \notin DOMAIN Payload
          /\ "status" \in DOMAIN Payload
          /\ Payload.status \in {"connected", "error", "unreachable"}
          /\ (Payload.status = "connected") <=> (upstream.probe = "ok")
          /\ (Payload.status = "error") <=> (upstream.probe = "http")
          /\ (Payload.status = "unreachable") <=> (upstream.probe \in {"down", "hang"})
          /\ Payload.status # "connected" => "error" \in DOMAIN Payload
          /\ calls = <<ProbeCall>>
    /\ HealthProbeFailed =>
          /\ "issues" \in DOMAIN Payload
          /\ "error" \notin DOMAIN Payload
          /\ Len(Payload.issues) = 1

\* The probe timed out and reported "unreachable" with an error field.
C31_Witness ==
    /\ ProbeAnswered
    /\ upstream.probe = "hang"
    /\ Payload.status = "unreachable"
    /\ "error" \in DOMAIN Payload


\* What the web UI's backpressure check returns for the snapshot in hand.
WebAnswer(human) == LogstashClient_check_backpressure(human, upstream)

\* The fields by which a backpressure report classifies a snapshot.
Classification(report) ==
    [status |-> report.status,
     recommendation |-> report.recommendation,
     current_backpressure_percent |-> report.current_backpressure_percent,
     analysis |-> report.analysis]

\* C32: for every flow snapshot the web UI's backpressure check and the server's
\* check_backpressure give the same status, recommendation, percentage string and
\* trend breakdown, or both say that backpressure data is not available.
C32_WebAndServerClassifyAlike ==
    BackpressureFetched =>
        \A human \in BOOLEAN :
            LET web == WebAnswer(human)
            IN  /\ web.success <=> "status" \in DOMAIN Payload
                /\ web.success =>
                      /\ "status" \in DOMAIN Payload
                      /\ Classification(web.data) = Classification(Payload)
                      /\ web.data = Payload
                /\ ~web.success =>
                      /\ web.error = "Backpressure data not available"
                      /\ Payload = [error |-> "Backpressure data not available"]

\* Both classify a ratio just above the warning bound as "warning".
C32_Witness ==
    /\ BackpressureFetched
    /\ RatioPresent
    /\ "status" \in DOMAIN Payload
    /\ Payload.status = "warning"
    /\ WebAnswer(TRUE).success
    /\ WebAnswer(TRUE).data.status = "warning"
    /\ WebAnswer(TRUE).data.current_backpressure_percent = "5.0100%"

=============================================================================
